---- MODULE Spec2Model ----
(***************************************************************************)
(* State-machine model of src/src/main.js: the retry fetcher               *)
(* (fetchDataWithRetry), the fetch-and-reconcile pipeline (fetchCoinData), *)
(* the view reconciler (updateVisibleCoins and the render helpers) and the *)
(* handlers that drive them.                                               *)
(*                                                                         *)
(* JavaScript strings are sequences of one-character strings.  JavaScript  *)
(* numbers are integers; the two non-numbers the code meets, NaN and       *)
(* undefined, are the negative values NaN and Undefined (prices are >= 0). *)
(***************************************************************************)
EXTENDS Integers, Naturals, Sequences, FiniteSets, TLC

\* ------------------------------------------------------------ constants

MAX_RETRIES == 5
BASE_DELAY_MS == 500
ITEMS_PER_PAGE == 15
\* The delay of the timer that hides a success message.
HIDE_DELAY_MS == 5000

COINLORE_API_URL == "tickers"
COINLORE_GLOBAL_URL == "global"

\* --------------------------------------------------------------- bounds

\* Largest asset list a provider response of the model holds.
MaxCoins == 31
\* Cap of the currentPage counter (goToNextPage increments it unguarded).
MaxPage == 2
\* Largest page number handed to updateVisibleCoins as an input.
MaxPageInput == 5
\* Longest search text handed to updateVisibleCoins as an input.
MaxQueryLen == 2
\* Number of fetchCoinData invocations started in one run.
MaxFetches == 2
\* Number of failed requests among the invocations that are still running.
MaxFailures == 5
\* Largest id the repeating timer is given.
MaxTimerId == 3
\* Number of input events in the search box.
MaxSearchEvents == 3
\* Number of closeModal timers pending at once.
MaxCloseTimers == 1

\* ------------------------------------------------------ values and text

NaN == 0 - 1
Undefined == 0 - 2

\* A const binding: x is computed once and F is given its value.
With(x, F(_)) == CHOOSE v \in {F(u) : u \in {x}} : TRUE

Min(a, b) == IF a < b THEN a ELSE b
Max(a, b) == IF a > b THEN a ELSE b

RECURSIVE Pow2(_)
\* Math.pow(2, i) for the non-negative integers i the loop passes.
Pow2(i) == IF i <= 0 THEN 1 ELSE 2 * Pow2(i - 1)

LowerChar(c) ==
  CASE c = "A" -> "a"
    [] c = "B" -> "b"
    [] c = "T" -> "t"
    [] OTHER -> c

\* String.prototype.toLowerCase
ToLowerCase(s) == [k \in 1..Len(s) |-> LowerChar(s[k])]

IsSpace(c) == c = " "

RECURSIVE TrimStart(_)
TrimStart(s) == IF s # <<>> /\ IsSpace(Head(s)) THEN TrimStart(Tail(s)) ELSE s

RECURSIVE TrimEnd(_)
TrimEnd(s) ==
  IF s # <<>> /\ IsSpace(s[Len(s)]) THEN TrimEnd(SubSeq(s, 1, Len(s) - 1)) ELSE s

\* String.prototype.trim
Trim(s) == TrimEnd(TrimStart(s))

\* String.prototype.includes
Includes(s, q) ==
  \E k \in 0..(Len(s) - Len(q)) : SubSeq(s, k + 1, k + Len(q)) = q

Digits == <<"0", "1", "2", "3", "4", "5", "6", "7", "8", "9">>

IsDigit(c) == \E d \in 1..10 : Digits[d] = c

DigitValue(c) == (CHOOSE d \in 1..10 : Digits[d] = c) - 1

RECURSIVE ParseDigits(_, _)
\* Value of the longest prefix of digits of s, read after the value acc.
ParseDigits(s, acc) ==
  IF s # <<>> /\ IsDigit(Head(s))
    THEN ParseDigits(Tail(s), 10 * acc + DigitValue(Head(s)))
    ELSE acc

\* parseFloat on the unsigned decimal strings of the model: the number the
\* leading digits spell, NaN when the string does not start with a digit.
ParseFloat(s) ==
  IF s # <<>> /\ IsDigit(Head(s)) THEN ParseDigits(s, 0) ELSE NaN

\* Number -> decimal string, as the provider serialises a price.
RECURSIVE DecimalString(_)
DecimalString(n) ==
  IF n < 10 THEN <<Digits[n + 1]>>
  ELSE DecimalString(n \div 10) \o <<Digits[(n % 10) + 1]>>

\* isNaN
IsNaN(v) == v = NaN \/ v = Undefined

\* JavaScript truthiness of a number or undefined.
Falsy(v) == v = Undefined \/ v = 0 \/ v = NaN

JsGreater(a, b) == ~IsNaN(a) /\ ~IsNaN(b) /\ a > b
JsLess(a, b) == ~IsNaN(a) /\ ~IsNaN(b) /\ a < b

\* ------------------------------------------------- the provider's data

NameTable ==
  << [name |-> <<"B", "a", "t">>, symbol |-> <<"B", "A", "T">>],
     [name |-> <<"T", "a", "b">>, symbol |-> <<"T", "B">>],
     [name |-> <<"A", " ", "b">>, symbol |-> <<"A", "B">>],
     [name |-> <<"a", "t">>,      symbol |-> <<"A", "T">>] >>

PriceTable ==
  << <<0, 10, 12, 8>>,
     <<5, 12, 10, 8>>,
     <<0, 8, 12, 10>> >>

\* The asset with id k as quoted in price round v.
Coin(k, v) ==
  [ id        |-> k,
    name      |-> NameTable[(k % 4) + 1].name,
    symbol    |-> NameTable[(k % 4) + 1].symbol,
    price_usd |-> DecimalString(PriceTable[v][((k + (k \div 4)) % 4) + 1]) ]

\* Assets 1..n in rank order, price round v.
Ranked(n, v) == [k \in 1..n |-> Coin(k, v)]

\* The same assets in the opposite order.
Reversed(s) == [k \in 1..Len(s) |-> s[Len(s) + 1 - k]]

\* ------------------------------------------------- the view reconciler

\* The search query updateVisibleCoins reads from the search input.
QueryOf(input) == Trim(ToLowerCase(input))

\* A filter that looks at the name only.
MatchesNameOnly(coin, query) == Includes(ToLowerCase(coin.name), query)

Matches(coin, query) ==
  \/ Includes(ToLowerCase(coin.name), query)
  \/ Includes(ToLowerCase(coin.symbol), query)

\* allCoins.filter(...)
FilterCoins(coins, query) == SelectSeq(coins, LAMBDA coin : Matches(coin, query))

\* Math.ceil(totalItems / ITEMS_PER_PAGE)
TotalPages(totalItems) == (totalItems + ITEMS_PER_PAGE - 1) \div ITEMS_PER_PAGE

\* An adjustment that steps back one page at a time.
ClampPageOneStep(page, totalPages) ==
  IF page > totalPages /\ totalPages > 0 THEN page - 1
  ELSE IF page < 1 THEN 1
  ELSE page

\* An adjustment that has lost its lower bound.
ClampPageUpperOnly(page, totalPages) ==
  IF page > totalPages /\ totalPages > 0 THEN totalPages ELSE page

\* An adjustment that has lost its upper bound.
ClampPageLowerOnly(page, totalPages) == IF page < 1 THEN 1 ELSE page

\* The page after the out-of-bounds adjustment.
ClampPage(page, totalPages) ==
  IF page > totalPages /\ totalPages > 0 THEN totalPages
  ELSE IF page < 1 THEN 1
  ELSE page

\* An index argument of Array.prototype.slice, made relative to the array.
SliceIndex(k, len) == IF k < 0 THEN Max(len + k, 0) ELSE Min(k, len)

\* Array.prototype.slice(start, end)
Slice(s, start, end) ==
  SubSeq(s, SliceIndex(start, Len(s)) + 1, SliceIndex(end, Len(s)))

PageStart(page) == (page - 1) * ITEMS_PER_PAGE

\* A slice that runs one asset into the next page.
PageSliceOffByOne(filtered, page) ==
  Slice(filtered, PageStart(page), PageStart(page) + ITEMS_PER_PAGE + 1)

PageSlice(filtered, page) ==
  Slice(filtered, PageStart(page), PageStart(page) + ITEMS_PER_PAGE)

\* An oldPrices argument: an object (a map from ids to numbers), or undefined
\* when the caller passes none to renderCoins.
PricesObject(map) == [defined |-> TRUE, map |-> map]
NoPrices == [defined |-> FALSE, map |-> <<>>]
\* A default that still holds a price for every id.
KeptPrices == PricesObject([id \in 1..MaxCoins |-> 1])

\* The default of the parameter: oldPrices = {}
EmptyPrices == PricesObject(<<>>)

\* oldPrices[coin.id]
PriceLookup(oldPrices, id) ==
  IF id \in DOMAIN oldPrices.map THEN oldPrices.map[id] ELSE Undefined

\* The index of the last asset with this id: reduce lets a later one overwrite.
LastIndexOf(coins, id) ==
  CHOOSE k \in 1..Len(coins) :
    /\ coins[k].id = id
    /\ \A j \in (k + 1)..Len(coins) : coins[j].id # id

\* An index taken from the store as it was at start-up: empty.
OldPricesAtStartup(coins) == EmptyPrices

\* allCoins.reduce(...): the price of every asset of the outgoing snapshot.
OldPricesOf(coins) ==
  PricesObject(
    [id \in {coins[k].id : k \in 1..Len(coins)} |->
       ParseFloat(coins[LastIndexOf(coins, id)].price_usd)])

GetPriceChangeClass(newPriceStr, oldPrice) ==
  IF Falsy(oldPrice) \/ IsNaN(oldPrice) THEN ""
  ELSE IF JsGreater(ParseFloat(newPriceStr), oldPrice) THEN "animate-price-up"
  ELSE IF JsLess(ParseFloat(newPriceStr), oldPrice) THEN "animate-price-down"
  ELSE ""

\* The rows renderTable and renderCards paint: one per asset, with its class.
Rows(coins, oldPrices) ==
  [k \in 1..Len(coins) |->
     [ id         |-> coins[k].id,
       price      |-> coins[k].price_usd,
       priceClass |-> GetPriceChangeClass(coins[k].price_usd,
                                          PriceLookup(oldPrices, coins[k].id)) ]]

\* renderCoins: the new content of the list container, and whether the call
\* threw (reading a property of an undefined oldPrices) before painting.
RenderCoins(coins, oldPrices, view, shown) ==
  IF coins = <<>> THEN [threw |-> FALSE, list |-> [kind |-> "no-results"]]
  ELSE IF ~oldPrices.defined THEN [threw |-> TRUE, list |-> shown]
  ELSE [threw |-> FALSE,
        list  |-> [kind |-> view, rows |-> Rows(coins, oldPrices)]]

\* updatePaginationControls(totalPages, totalItems): the two buttons and the
\* page indicator (<<>>: No results), with the arguments of the call.
PaginationControls(page, totalPages, totalItems) ==
  [ prevDisabled |-> (page = 1),
    nextDisabled |-> (page >= totalPages \/ totalItems = 0),
    indicator    |-> IF totalItems = 0 THEN <<>> ELSE <<page, totalPages>>,
    totalPages   |-> totalPages,
    totalItems   |-> totalItems ]

\* updateVisibleCoins(oldPrices): what it leaves in currentPage, visibleCoins
\* and the page.
UpdateVisibleCoins(coins, input, page, oldPrices, view, shown) ==
  With(FilterCoins(coins, QueryOf(input)), LAMBDA filteredCoins :
    LET totalItems == Len(filteredCoins)
        totalPages == TotalPages(totalItems)
        newPage == ClampPage(page, totalPages)
    IN With(PageSlice(filteredCoins, newPage), LAMBDA visible :
         [ currentPage  |-> newPage,
           visibleCoins |-> visible,
           cryptoList   |-> RenderCoins(visible, oldPrices, view, shown).list,
           pagination   |-> PaginationControls(newPage, totalPages, totalItems) ]))

\* ------------------------------------------------ the provider's answers

\* Bodies the asset-list endpoint answers with: { data: Asset[] }, or an
\* object without data.
CoinResponses ==
  << [hasData |-> TRUE,  data |-> Ranked(MaxCoins, 1)],
     [hasData |-> TRUE,  data |-> Reversed(Ranked(ITEMS_PER_PAGE, 2))],
     [hasData |-> FALSE, data |-> <<>>] >>

\* Bodies the global-stats endpoint answers with: { data: [GlobalStats] }, or
\* an object without data.
GlobalResponses ==
  << [hasData |-> TRUE,  data |-> <<[coins_count |-> 100, btc_d |-> 50]>>],
     [hasData |-> FALSE, data |-> <<>>] >>

ResponsesOf(url) ==
  IF url = COINLORE_API_URL THEN CoinResponses ELSE GlobalResponses

\* coinData.data || []
CoinDataOf(body) == IF body.hasData THEN body.data ELSE <<>>

\* globalData.data ? globalData.data[0] : {}
GlobalDataOf(body) == IF body.hasData THEN body.data[1] ELSE [none |-> TRUE]

\* ----------------------------------------------------------------- state

VARIABLES
  allCoins,               \* let allCoins
  visibleCoins,           \* let visibleCoins
  currentView,            \* let currentView
  currentPage,            \* let currentPage
  searchTimeout,          \* let searchTimeout: the id of the last debounce timer (0: undefined)
  searchTimers,           \* the ids of the debounce timers still to fire
  autoRefreshIntervalId,  \* let autoRefreshIntervalId (0: null)
  intervals,              \* the ids of the repeating timers that are active
  storedView,             \* localStorage: the value under viewMode ("": none)
  searchInput,            \* the value of the search input
  cryptoList,             \* the content of the list container
  pagination,             \* the previous/next buttons and the page indicator
  globalStats,            \* the content of the global-stats container
  message,                \* the message area
  hideTimers,             \* pending timers that hide the message area
  pipelines,              \* the fetchCoinData invocations, in start order
  started,                \* whether initializeApp has run
  entryPage,              \* currentPage as the last updateVisibleCoins found it
  oldPricesArg,           \* the oldPrices a caller hands to updateVisibleCoins(oldPrices)
  modalHidden,            \* whether the coin-detail modal carries the class hidden
  closeTimers,            \* pending timers of closeModal that hide the modal
  uncaught,               \* whether a handler has ended in an uncaught TypeError
  lastCompletion          \* the run of fetchCoinData that replaced the snapshot last
                          \* (0: none), and whether it painted a price change

vars ==
  << allCoins, visibleCoins, currentView, currentPage, searchTimeout, searchTimers,
     autoRefreshIntervalId, intervals, storedView, searchInput, cryptoList,
     pagination, globalStats, message, hideTimers, pipelines, started,
     entryPage, oldPricesArg, modalHidden, closeTimers, uncaught, lastCompletion >>

\* What a fetch completion may write.
dataVars ==
  << allCoins, visibleCoins, currentPage, cryptoList, pagination, globalStats,
     message, hideTimers, entryPage, lastCompletion >>

\* What no fetch step writes.
userVars ==
  << currentView, searchTimeout, searchTimers, autoRefreshIntervalId, intervals, storedView,
     searchInput, started, oldPricesArg, modalHidden, closeTimers, uncaught >>

\* ------------------------------------------------------ fetchDataWithRetry

\* A call of fetchDataWithRetry as it starts: i = 0, the first request sent.
\* attempts counts the requests sent, waits lists the delays slept; result
\* tells how the call ended (body: it returned response.data; undefined: it
\* left the loop), and data is the index of the body while Promise.all still
\* waits to hand it on (0: none).
NewFetch(url) ==
  [ url |-> url, i |-> 0, pc |-> "get", attempts |-> 1, waits |-> <<>>,
    result |-> "none", data |-> 0 ]

\* Mutant: the last attempt is taken to be the one after the 5th.
LastAttemptOffByOne(i) == i = MAX_RETRIES

\* i === MAX_RETRIES - 1
LastAttempt(i) == i = MAX_RETRIES - 1

\* The loop condition i < MAX_RETRIES.
LoopContinues(i) == i < MAX_RETRIES

\* Mutant: a delay that grows linearly.
DelayLinear(i) == BASE_DELAY_MS * (i + 1)

\* BASE_DELAY_MS * Math.pow(2, i)
Delay(i) == BASE_DELAY_MS * Pow2(i)

\* axios.get resolved with body r: return response.data.
FetchResolved(f, r) ==
  [f EXCEPT !.pc = "returned", !.result = "body", !.data = r]

\* axios.get rejected: throw after the last attempt, else sleep(delay).
FetchRejected(f) ==
  IF LastAttempt(f.i) THEN [f EXCEPT !.pc = "thrown", !.result = "error"]
  ELSE [f EXCEPT !.pc = "sleep", !.waits = Append(@, Delay(f.i))]

\* sleep resolved: i++, then the next request, or the end of the loop (the
\* function then returns undefined).
FetchWoken(f) ==
  IF LoopContinues(f.i + 1)
    THEN [f EXCEPT !.i = @ + 1, !.pc = "get", !.attempts = @ + 1]
    ELSE [f EXCEPT !.i = @ + 1, !.pc = "returned", !.result = "undefined"]

\* ------------------------------------------------------------ showMessage

\* What dataVars hold now.
Current ==
  [ allCoins     |-> allCoins,
    visibleCoins |-> visibleCoins,
    currentPage  |-> currentPage,
    cryptoList   |-> cryptoList,
    pagination   |-> pagination,
    globalStats  |-> globalStats,
    message      |-> message,
    hideTimers   |-> hideTimers,
    entryPage    |-> entryPage,
    lastCompletion |-> lastCompletion ]

\* showMessage(message, type): the area shows the message; a success message
\* also starts a timer that hides the area.
ShowMessage(state, type) ==
  [state EXCEPT !.message = [type |-> type, hidden |-> FALSE],
                !.hideTimers = IF type = "success" THEN @ + 1 ELSE @]

\* ---------------------------------------------------------- fetchCoinData

\* A call of fetchCoinData(isRefresh) suspended at the await of Promise.all.
NewPipeline(isRefresh) ==
  [ isRefresh |-> isRefresh,
    outcome   |-> "pending",
    coin      |-> NewFetch(COINLORE_API_URL),
    glob      |-> NewFetch(COINLORE_GLOBAL_URL) ]

\* Mutant: the join waits for one call only.
EitherFulfilled(coin, glob) == coin.pc = "returned" \/ glob.pc = "returned"

\* Promise.all fulfils when both calls have returned.
AllFulfilled(coin, glob) == coin.pc = "returned" /\ glob.pc = "returned"

\* Mutant: a thrown call never rejects the join.
NeverRejected(coin, glob) == FALSE

\* Promise.all rejects as soon as one call throws.
AnyRejected(coin, glob) == coin.pc = "thrown" \/ glob.pc = "thrown"

\* Mutant: the new assets are appended to the old ones.
NewSnapshotMerged(old, body) == old \o CoinDataOf(body)

\* allCoins = coinData.data || []
NewSnapshot(old, body) == CoinDataOf(body)

\* Mutant: the catch block also clears what is displayed.
FetchFailedClearing(state) ==
  ShowMessage([state EXCEPT !.allCoins = <<>>, !.visibleCoins = <<>>,
                            !.currentPage = 1], "error")

\* The catch block.
FetchFailed(state) == ShowMessage(state, "error")

\* updateVisibleCoins(oldPrices), run on the values of state.
Reconciled(state, oldPrices) ==
  With(state, LAMBDA st :
    With(UpdateVisibleCoins(st.allCoins, searchInput, st.currentPage,
                            oldPrices, currentView, st.cryptoList),
         LAMBDA u :
           [st EXCEPT !.entryPage    = st.currentPage,
                      !.currentPage  = u.currentPage,
                      !.visibleCoins = u.visibleCoins,
                      !.cryptoList   = u.cryptoList,
                      !.pagination   = u.pagination]))

\* A completion that shows the new snapshot from its first page.
FetchSucceededFromFirstPage(isRefresh, c, g) ==
  IF c = 0 \/ g = 0 THEN FetchFailed(Current)
  ELSE
    With(OldPricesOf(allCoins), LAMBDA oldPrices :
      LET painted ==
            Reconciled([Current EXCEPT
                          !.allCoins = NewSnapshot(allCoins, CoinResponses[c]),
                          !.globalStats = GlobalDataOf(GlobalResponses[g]),
                          !.currentPage = 1], oldPrices)
      IN IF isRefresh THEN painted ELSE ShowMessage(painted, "success"))

\* The code after the await, for the bodies with indexes c and g (0: the call
\* returned undefined, and reading its data throws into the catch block).
FetchSucceeded(isRefresh, c, g) ==
  IF c = 0 THEN FetchFailed(Current)
  ELSE
    With(OldPricesOf(allCoins), LAMBDA oldPrices :
      LET replaced == [Current EXCEPT
                         !.allCoins = NewSnapshot(allCoins, CoinResponses[c])]
      IN IF g = 0 THEN FetchFailed(replaced)
         ELSE
           LET stats == [replaced EXCEPT
                           !.globalStats = GlobalDataOf(GlobalResponses[g])]
               painted == Reconciled(stats, oldPrices)
           IN IF isRefresh THEN painted ELSE ShowMessage(painted, "success"))

\* No run has replaced the snapshot yet.
NoCompletion == [run |-> 0, deltas |-> FALSE]

\* The state run p leaves when Promise.all has fulfilled: if the code after
\* the await ran to its end, p is the run that replaced the snapshot last.
Completion(p, outcome, after) ==
  IF outcome # "loaded" THEN after
  ELSE With(after, LAMBDA st :
         [st EXCEPT !.lastCompletion =
            [ run    |-> p,
              deltas |-> /\ st.cryptoList.kind \in {"table", "card"}
                         /\ \E k \in 1..Len(st.cryptoList.rows) :
                              st.cryptoList.rows[k].priceClass # "" ]])

Apply(state) ==
  /\ allCoins' = state.allCoins
  /\ visibleCoins' = state.visibleCoins
  /\ currentPage' = state.currentPage
  /\ cryptoList' = state.cryptoList
  /\ pagination' = state.pagination
  /\ globalStats' = state.globalStats
  /\ message' = state.message
  /\ hideTimers' = state.hideTimers
  /\ entryPage' = state.entryPage
  /\ lastCompletion' = state.lastCompletion

\* A call that is over, in a pipeline that is over: only how it ended is kept.
Gone(f) ==
  [ url |-> f.url, i |-> 0, pc |-> "gone", attempts |-> 0, waits |-> <<>>,
    result |-> f.result, data |-> 0 ]

Over(f) == f.pc \in {"returned", "thrown"}

\* A pipeline after Promise.all has settled with `outcome`: no body is read
\* any more, and once both calls are over only their results are kept.
Settled(pl, outcome) ==
  IF outcome = "pending" THEN pl
  ELSE IF Over(pl.coin) /\ Over(pl.glob)
    THEN [pl EXCEPT !.outcome = outcome, !.coin = Gone(@), !.glob = Gone(@)]
    ELSE [pl EXCEPT !.outcome = outcome, !.coin.data = 0, !.glob.data = 0]

\* One step of the call f (coin or glob) of pipeline p, which becomes
\* next; when the step settles Promise.all, the rest of fetchCoinData runs.
FetchStep(p, f, next) ==
  LET pl == pipelines[p]
      moved == [pl EXCEPT ![f] = next]
      fulfilled == pl.outcome = "pending" /\ AllFulfilled(moved.coin, moved.glob)
      rejected == pl.outcome = "pending" /\ AnyRejected(moved.coin, moved.glob)
      threw == moved.coin.result = "undefined" \/ moved.glob.result = "undefined"
      outcome ==
        IF rejected \/ (fulfilled /\ threw) THEN "failed"
        ELSE IF fulfilled THEN "loaded"
        ELSE pl.outcome
  IN /\ pipelines' = [pipelines EXCEPT ![p] = Settled(moved, outcome)]
     /\ \E state \in
            { IF rejected THEN FetchFailed(Current)
              ELSE IF fulfilled
                THEN Completion(p, outcome,
                       FetchSucceeded(pl.isRefresh, moved.coin.data, moved.glob.data))
                ELSE Current } : Apply(state)
     /\ UNCHANGED userVars

\* The requests that have failed in the invocations still running.
RECURSIVE FailedRequests(_)
FailedRequests(pls) ==
  IF pls = <<>> THEN 0
  ELSE LET failed(f) == Len(f.waits) + (IF f.pc = "thrown" THEN 1 ELSE 0)
       IN failed(Head(pls).coin) + failed(Head(pls).glob) + FailedRequests(Tail(pls))

Calls == {"coin", "glob"}

\* The request in flight is answered with body r.
RequestSucceeds(p, f, r) ==
  /\ pipelines[p][f].pc = "get"
  /\ FetchStep(p, f, FetchResolved(pipelines[p][f], r))

\* The request in flight fails (transport error or non-success status).
RequestFails(p, f) ==
  /\ pipelines[p][f].pc = "get"
  /\ FailedRequests(pipelines) < MaxFailures
  /\ FetchStep(p, f, FetchRejected(pipelines[p][f]))

\* The backoff timer fires.
SleepEnds(p, f) ==
  /\ pipelines[p][f].pc = "sleep"
  /\ FetchStep(p, f, FetchWoken(pipelines[p][f]))

\* --------------------------------------------------------------- handlers

\* toggleView(view): the assignments, then renderCoins(visibleCoins) with no
\* oldPrices.
ToggleViewRender(view) == RenderCoins(visibleCoins, NoPrices, view, cryptoList)

\* toggleView that does not write the preference.
ViewModeNotStored(view) == storedView

\* localStorage.setItem('viewMode', view): the value under viewMode.
ViewModeStored(view) == view

\* The views the two buttons ask for.
ViewModes == {"table", "card"}

\* toggleView(view), from a click on a view button.
ToggleView(view) ==
  /\ started
  /\ currentView' = view
  /\ storedView' = ViewModeStored(view)
  /\ cryptoList' = ToggleViewRender(view).list
  /\ uncaught' = (uncaught \/ ToggleViewRender(view).threw)
  /\ UNCHANGED << allCoins, visibleCoins, currentPage, pagination, globalStats,
                  message, hideTimers, entryPage, pipelines, searchTimeout,
                  searchTimers, autoRefreshIntervalId, intervals, searchInput,
                  started, oldPricesArg, modalHidden, closeTimers, lastCompletion >>

\* showCoinDetails(coinId), from a click on a row of the list: the modal is
\* shown if the snapshot holds the asset.
ShowCoinDetails(coinId) ==
  /\ started
  /\ \E k \in 1..Len(allCoins) : allCoins[k].id = coinId
  /\ modalHidden' = FALSE
  /\ UNCHANGED << dataVars, pipelines, currentView, searchTimeout, searchTimers,
                  autoRefreshIntervalId, intervals, storedView, searchInput,
                  started, oldPricesArg, closeTimers, uncaught >>

\* closeModal(), or closeModal(event) from a click on the backdrop: the
\* modal is hidden 300 ms later.
CloseModal ==
  /\ started
  /\ closeTimers < MaxCloseTimers
  /\ closeTimers' = closeTimers + 1
  /\ UNCHANGED << dataVars, pipelines, currentView, searchTimeout, searchTimers,
                  autoRefreshIntervalId, intervals, storedView, searchInput,
                  started, oldPricesArg, modalHidden, uncaught >>

\* The timer of closeModal fires.
CloseTimerFires ==
  /\ closeTimers > 0
  /\ closeTimers' = closeTimers - 1
  /\ modalHidden' = TRUE
  /\ UNCHANGED << dataVars, pipelines, currentView, searchTimeout, searchTimers,
                  autoRefreshIntervalId, intervals, storedView, searchInput,
                  started, oldPricesArg, uncaught >>

\* startAutoRefresh that leaves the timer it replaces running.
TimersAfterStartNoClear == intervals \cup {autoRefreshIntervalId + 1}

\* startAutoRefresh: clear the timer autoRefreshIntervalId names, start one.
TimersAfterStart == (intervals \ {autoRefreshIntervalId}) \cup {autoRefreshIntervalId + 1}

\* initializeApp: fetchCoinData() up to its await, toggleView(currentView),
\* startAutoRefresh().
InitializeApp ==
  /\ ~started
  /\ started' = TRUE
  /\ pipelines' = Append(pipelines, NewPipeline(FALSE))
  /\ message' = ShowMessage(Current, "loading").message
  /\ storedView' = ViewModeStored(currentView)
  /\ cryptoList' = ToggleViewRender(currentView).list
  /\ uncaught' = (uncaught \/ ToggleViewRender(currentView).threw)
  /\ IF ToggleViewRender(currentView).threw
       THEN UNCHANGED <<autoRefreshIntervalId, intervals>>
       ELSE /\ autoRefreshIntervalId' = autoRefreshIntervalId + 1
            /\ intervals' = TimersAfterStart
  /\ UNCHANGED << allCoins, visibleCoins, currentView, currentPage, searchTimeout, searchTimers,
                  searchInput, pagination, globalStats, hideTimers, entryPage,
                  oldPricesArg, modalHidden, closeTimers, lastCompletion >>

\* A tick of the repeating timer t: fetchCoinData(true) up to its await.
Tick(t) ==
  /\ t \in intervals
  /\ Len(pipelines) < MaxFetches
  /\ pipelines' = Append(pipelines, NewPipeline(TRUE))
  /\ UNCHANGED <<dataVars, userVars>>

\* What the user types into the search input in the model.
SearchInputs == { <<>>, <<" ", "b">> }

\* handleSearch that schedules without clearing the timer it replaces.
TimersAfterSearchNoClear == searchTimers \cup {searchTimeout + 1}

\* clearTimeout(searchTimeout); searchTimeout = setTimeout(...)
TimersAfterSearch == (searchTimers \ {searchTimeout}) \cup {searchTimeout + 1}

\* An input event: the value changes and handleSearch restarts the debounce.
HandleSearch(text) ==
  /\ started
  /\ text # searchInput
  /\ searchTimeout < MaxSearchEvents
  /\ searchInput' = text
  /\ searchTimeout' = searchTimeout + 1
  /\ searchTimers' = TimersAfterSearch
  /\ UNCHANGED << dataVars, pipelines, currentView, autoRefreshIntervalId,
                  intervals, storedView, started, oldPricesArg, modalHidden, closeTimers, uncaught >>

\* The debounce timer fires: currentPage = 1; updateVisibleCoins().
SearchFires(t) ==
  /\ t \in searchTimers
  /\ searchTimers' = searchTimers \ {t}
  /\ \E state \in {Reconciled([Current EXCEPT !.currentPage = 1], EmptyPrices)} :
       Apply(state)
  /\ UNCHANGED << pipelines, currentView, autoRefreshIntervalId, intervals,
                  storedView, searchInput, started, oldPricesArg, modalHidden, closeTimers, searchTimeout,
                  uncaught >>

GoToPreviousPage ==
  /\ started
  /\ currentPage > 1
  /\ \E state \in {Reconciled([Current EXCEPT !.currentPage = @ - 1], EmptyPrices)} :
       Apply(state)
  /\ UNCHANGED <<pipelines, userVars>>

GoToNextPage ==
  /\ started
  /\ currentPage < MaxPage
  /\ \E state \in {Reconciled([Current EXCEPT !.currentPage = @ + 1], EmptyPrices)} :
       Apply(state)
  /\ UNCHANGED <<pipelines, userVars>>

\* A hide timer of a success message fires.
HideTimerFires ==
  /\ hideTimers > 0
  /\ hideTimers' = hideTimers - 1
  /\ message' = [message EXCEPT !.hidden = TRUE]
  /\ UNCHANGED << allCoins, visibleCoins, currentPage, cryptoList, pagination,
                  globalStats, entryPage, lastCompletion, pipelines, userVars >>

\* --------------------------------------------------------- specifications

StoredViews == {"", "table", "card"}

Init ==
  /\ allCoins = <<>>
  /\ visibleCoins = <<>>
  /\ storedView \in StoredViews
  /\ currentView = (IF storedView = "" THEN "table" ELSE storedView)
  /\ currentPage = 1
  /\ searchTimeout = 0
  /\ searchTimers = {}
  /\ autoRefreshIntervalId = 0
  /\ intervals = {}
  /\ searchInput = <<>>
  /\ cryptoList = [kind |-> "initial"]
  /\ pagination = [kind |-> "initial"]
  /\ globalStats = [kind |-> "initial"]
  /\ message = [type |-> "none", hidden |-> TRUE]
  /\ hideTimers = 0
  /\ pipelines = <<>>
  /\ started = FALSE
  /\ entryPage = 0
  /\ oldPricesArg = EmptyPrices
  /\ uncaught = FALSE
  /\ modalHidden = TRUE
  /\ closeTimers = 0
  /\ lastCompletion = NoCompletion

\* A step of one call of one pipeline.
FetchNext ==
  \E p \in 1..Len(pipelines) : \E f \in Calls :
     \/ \E r \in 1..Len(ResponsesOf(pipelines[p][f].url)) : RequestSucceeds(p, f, r)
     \/ RequestFails(p, f)
     \/ SleepEnds(p, f)

\* Every handler of the program.
Next ==
  \/ InitializeApp
  \/ \E t \in intervals : Tick(t)
  \/ FetchNext
  \/ \E text \in SearchInputs : HandleSearch(text)
  \/ \E t \in searchTimers : SearchFires(t)
  \/ GoToPreviousPage
  \/ GoToNextPage
  \/ HideTimerFires
  \/ \E view \in ViewModes : ToggleView(view)
  \/ \E k \in 1..Len(visibleCoins) : ShowCoinDetails(visibleCoins[k].id)
  \/ CloseModal
  \/ CloseTimerFires

Spec == Init /\ [][Next]_vars

\* The refresh machine: start-up, the timer ticks, the fetch pipelines they
\* start, the message timer, and page navigation by the user.
RefreshNext ==
  \/ InitializeApp
  \/ \E t \in intervals : Tick(t)
  \/ FetchNext
  \/ GoToPreviousPage
  \/ GoToNextPage
  \/ HideTimerFires

RefreshSpec == Init /\ [][RefreshNext]_vars

\* The initial load alone: start-up and the steps of the pipeline it starts.
LoadNext ==
  \/ InitializeApp
  \/ FetchNext

LoadSpec == Init /\ [][LoadNext]_vars

\* A tick that finds every earlier run of fetchCoinData settled.
QuietTick(t) ==
  /\ \A p \in 1..Len(pipelines) : pipelines[p].outcome # "pending"
  /\ Tick(t)

\* Start-up, ticks that find no run pending, and the pipelines they start,
\* where every request is answered in the end and every backoff timer fires:
\* while a call is not over, a step of some call is taken.
PipelineNext ==
  \/ InitializeApp
  \/ \E t \in intervals : QuietTick(t)
  \/ FetchNext

FairSpec == Init /\ [][PipelineNext]_vars /\ WF_vars(FetchNext)

\* The backoff a call still has to sleep through, after its request with
\* loop index i has failed, before it throws.
RECURSIVE BackoffLeft(_)
BackoffLeft(i) ==
  IF LastAttempt(i) \/ ~LoopContinues(i) THEN 0
  ELSE Delay(i) + BackoffLeft(i + 1)

\* Timers fire in the order of their deadlines: while the timer of a success
\* message is pending, a request fails only if the backoff left to its call
\* is shorter than the delay of that timer (a longer one ends after the
\* timer has fired).
FailsWhileMessageTimed(p, f) ==
  /\ hideTimers = 0 \/ BackoffLeft(pipelines[p][f].i) < HIDE_DELAY_MS
  /\ RequestFails(p, f)

\* A step of one call of one pipeline, in that order of the timers.
BannerFetchNext ==
  \E p \in 1..Len(pipelines) : \E f \in Calls :
     \/ \E r \in 1..Len(ResponsesOf(pipelines[p][f].url)) : RequestSucceeds(p, f, r)
     \/ FailsWhileMessageTimed(p, f)
     \/ SleepEnds(p, f)

\* The message area: start-up, the refresh ticks (the initial load may be
\* in flight for longer than the refresh interval), the pipelines, and the
\* timer that hides the success message.
BannerNext ==
  \/ InitializeApp
  \/ \E t \in intervals : Tick(t)
  \/ BannerFetchNext
  \/ HideTimerFires

BannerSpec == Init /\ [][BannerNext]_vars

\* startAutoRefresh(), called again.
StartAutoRefresh ==
  /\ started
  /\ autoRefreshIntervalId < MaxTimerId
  /\ autoRefreshIntervalId' = autoRefreshIntervalId + 1
  /\ intervals' = TimersAfterStart
  /\ UNCHANGED << dataVars, pipelines, currentView, searchTimeout, searchTimers, storedView,
                  searchInput, started, oldPricesArg, modalHidden, closeTimers, uncaught >>

\* The refresh timer: start-up, further calls of startAutoRefresh, ticks
\* that find no run pending, and the pipelines they start.
TimerNext ==
  \/ InitializeApp
  \/ StartAutoRefresh
  \/ \E t \in intervals : QuietTick(t)
  \/ FetchNext

TimerSpec == Init /\ [][TimerNext]_vars

\* The view state: start-up, the initial load, and every mutation the user
\* can make (view buttons, page buttons, search box).
ViewNext ==
  \/ InitializeApp
  \/ FetchNext
  \/ \E view \in ViewModes : ToggleView(view)
  \/ GoToPreviousPage
  \/ GoToNextPage
  \/ \E text \in SearchInputs : HandleSearch(text)
  \/ \E t \in searchTimers : SearchFires(t)

ViewSpec == Init /\ [][ViewNext]_vars

\* The user at work while the data refreshes: start-up, ticks that find no
\* run pending, the pipelines, the search box and the page buttons.
BrowseNext ==
  \/ InitializeApp
  \/ \E t \in intervals : QuietTick(t)
  \/ FetchNext
  \/ \E text \in SearchInputs : HandleSearch(text)
  \/ \E t \in searchTimers : SearchFires(t)
  \/ GoToPreviousPage
  \/ GoToNextPage

BrowseSpec == Init /\ [][BrowseNext]_vars

\* The same, with the modal of the first visible asset opened at any time.
ContextNext ==
  \/ BrowseNext
  \/ (visibleCoins # <<>> /\ ShowCoinDetails(visibleCoins[1].id))

ContextSpec == Init /\ [][ContextNext]_vars

\* A pending debounce timer fires.
SearchTaskRuns == \E t \in searchTimers : SearchFires(t)

\* The search box: start-up, the initial load, input events and the debounce
\* timers they schedule; a timer that is pending fires in the end.
SearchNext ==
  \/ InitializeApp
  \/ FetchNext
  \/ \E text \in SearchInputs : HandleSearch(text)
  \/ SearchTaskRuns

SearchSpec == Init /\ [][SearchNext]_vars /\ WF_vars(SearchTaskRuns)

\* ------------------------------------- updateVisibleCoins as a function

QueryChars == {"a", "B", "t", " "}

\* Every text of at most MaxQueryLen characters.
SearchTexts == UNION {[1..n -> QueryChars] : n \in 0..MaxQueryLen}

\* Every snapshot of at most MaxCoins assets, in rank order or reversed.
Snapshots ==
  {Ranked(n, 1) : n \in 0..MaxCoins} \cup {Reversed(Ranked(n, 1)) : n \in 0..MaxCoins}

PageInputs == (0 - 1)..MaxPageInput

\* Any snapshot, search text and page, before updateVisibleCoins has run.
ReconcileInit ==
  /\ allCoins \in Snapshots
  /\ searchInput \in SearchTexts
  /\ currentPage \in PageInputs
  /\ visibleCoins = <<>>
  /\ storedView = "table"
  /\ currentView = "table"
  /\ searchTimeout = 0
  /\ searchTimers = {}
  /\ autoRefreshIntervalId = 0
  /\ intervals = {}
  /\ cryptoList = [kind |-> "initial"]
  /\ pagination = [kind |-> "initial"]
  /\ globalStats = [kind |-> "initial"]
  /\ message = [type |-> "none", hidden |-> TRUE]
  /\ hideTimers = 0
  /\ pipelines = <<>>
  /\ started = TRUE
  /\ entryPage = 0
  /\ oldPricesArg = EmptyPrices
  /\ uncaught = FALSE
  /\ modalHidden = TRUE
  /\ closeTimers = 0
  /\ lastCompletion = NoCompletion

\* updateVisibleCoins()
Reconcile ==
  /\ \E state \in {Reconciled(Current, EmptyPrices)} : Apply(state)
  /\ UNCHANGED <<pipelines, userVars>>

ReconcileSpec == ReconcileInit /\ [][Reconcile]_vars

\* ------------------------ updateVisibleCoins(oldPrices), called repeatedly

\* Price indexes a caller may pass: none recorded, or the prices of another
\* price round of the same assets.
PriceIndexes ==
  {EmptyPrices} \cup {OldPricesOf(Ranked(MaxCoins, v)) : v \in 2..Len(PriceTable)}

\* Any snapshot, search text, page and price index, before the first call.
RepeatInit ==
  /\ allCoins \in Snapshots
  /\ searchInput \in {<<>>, <<"a">>, <<" ", "B">>}
  /\ currentPage \in PageInputs
  /\ oldPricesArg \in PriceIndexes
  /\ currentView \in {"table", "card"}
  /\ storedView = currentView
  /\ visibleCoins = <<>>
  /\ searchTimeout = 0
  /\ searchTimers = {}
  /\ autoRefreshIntervalId = 0
  /\ intervals = {}
  /\ cryptoList = [kind |-> "initial"]
  /\ pagination = [kind |-> "initial"]
  /\ globalStats = [kind |-> "initial"]
  /\ message = [type |-> "none", hidden |-> TRUE]
  /\ hideTimers = 0
  /\ pipelines = <<>>
  /\ started = TRUE
  /\ entryPage = 0
  /\ uncaught = FALSE
  /\ modalHidden = TRUE
  /\ closeTimers = 0
  /\ lastCompletion = NoCompletion

\* updateVisibleCoins(oldPrices) with the same argument as before.
ReconcileWithPrices ==
  /\ \E state \in {Reconciled(Current, oldPricesArg)} : Apply(state)
  /\ UNCHANGED <<pipelines, userVars>>

RepeatSpec == RepeatInit /\ [][ReconcileWithPrices]_vars

\* ------------------------------------------------------------ the claims

\* The calls of fetchDataWithRetry whose history the state still holds.
TrackedCalls ==
  {c \in {pipelines[p][f] : p \in 1..Len(pipelines), f \in Calls} : c.pc # "gone"}

RECURSIVE SumOf(_)
SumOf(s) == IF s = <<>> THEN 0 ELSE Head(s) + SumOf(Tail(s))

IsPrefixOf(s, t) == Len(s) <= Len(t) /\ s = SubSeq(t, 1, Len(s))

\* C1: a call of fetchDataWithRetry sends at most 5 requests, one at a time;
\* it throws only after 5 requests have failed, it never sends a 6th, and a
\* call whose request succeeded has returned that body and sends no more:
\* once a call has returned or thrown, its count of requests stays.
C1_AtMostFiveAttempts ==
  /\ [](\A c \in TrackedCalls :
          /\ c.attempts <= 5
          /\ c.attempts = Len(c.waits) + (IF c.pc = "sleep" THEN 0 ELSE 1)
          /\ c.pc = "thrown" => c.attempts = 5 /\ c.result = "error"
          /\ c.pc = "returned" => c.result = "body")
  /\ [][\A p \in 1..Len(pipelines) : \A f \in Calls :
          pipelines[p][f].pc \in {"returned", "thrown"}
            => \/ pipelines'[p][f].pc = "gone"
               \/ /\ pipelines'[p][f].pc = pipelines[p][f].pc
                  /\ pipelines'[p][f].attempts = pipelines[p][f].attempts]_vars

\* C1 witness: a call has thrown after its 5th request failed.
C1_Witness ==
  \E c \in TrackedCalls : c.pc = "thrown" /\ c.attempts = 5 /\ Len(c.waits) = 4

\* C2: the waits of a call are 500, 1000, 2000, 4000 ms in this order; a call
\* that returns from its 5th request has waited 7500 ms; no wait follows the
\* 5th failed request.
C2_BackoffDelays ==
  \A c \in TrackedCalls :
    /\ IsPrefixOf(c.waits, <<500, 1000, 2000, 4000>>)
    /\ c.pc = "sleep" => Len(c.waits) = c.i + 1
    /\ c.pc = "returned" /\ c.attempts = 5 => SumOf(c.waits) = 7500
    /\ c.pc = "thrown" => c.waits = <<500, 1000, 2000, 4000>>

\* C2 witness: a call has returned the body of its 5th request.
C2_Witness ==
  \E c \in TrackedCalls :
    c.pc = "returned" /\ c.result = "body" /\ c.attempts = 5 /\ SumOf(c.waits) = 7500

\* Pipeline p settles in this step with the given outcome.
Settles(p, outcome) ==
  /\ p <= Len(pipelines)
  /\ pipelines[p].outcome = "pending"
  /\ pipelines'[p].outcome = outcome

BothBodies(pl) == pl.coin.result = "body" /\ pl.glob.result = "body"

\* C3: a step changes allCoins or the global stats only when it completes a
\* run of fetchCoinData whose two fetches both returned a body; a run that
\* fails changes neither, and a body that arrives after the failure changes
\* neither.
C3_BothOrNothing ==
  [][ /\ (allCoins' # allCoins \/ globalStats' # globalStats)
           => \E p \in 1..Len(pipelines) :
                Settles(p, "loaded") /\ BothBodies(pipelines'[p])
      /\ \A p \in 1..Len(pipelines) :
           Settles(p, "failed")
             => allCoins' = allCoins /\ globalStats' = globalStats ]_vars

\* C3 witness: a run has failed with exactly one of its two fetches having
\* returned a body.
C3_Witness ==
  \E p \in 1..Len(pipelines) :
    /\ pipelines[p].outcome = "failed"
    /\ {pipelines[p].coin.result, pipelines[p].glob.result} = {"body", "error"}

\* C4: the step in which a background refresh fails shows the error message
\* and leaves allCoins, visibleCoins and currentPage as they were.
C4_StaleDataKept ==
  [][ \A p \in 1..Len(pipelines) :
        pipelines[p].isRefresh /\ Settles(p, "failed")
          => /\ message' = [type |-> "error", hidden |-> FALSE]
             /\ allCoins' = allCoins
             /\ visibleCoins' = visibleCoins
             /\ currentPage' = currentPage ]_vars

\* C4 witness: a background refresh has failed while page 2 of a loaded
\* snapshot is on display.
C4_Witness ==
  \E p \in 1..Len(pipelines) :
    /\ pipelines[p].isRefresh
    /\ pipelines[p].outcome = "failed"
    /\ message = [type |-> "error", hidden |-> FALSE]
    /\ allCoins # <<>>
    /\ visibleCoins # <<>>
    /\ currentPage = 2

Started(n) == Len(pipelines) >= n

Finished(n) == Len(pipelines) >= n /\ pipelines[n].outcome # "pending"

\* C5: every run of fetchCoinData that starts finishes; it finishes as loaded
\* only with two bodies (so never when every request fails), and the step in
\* which it finishes as failed shows the error message.
C5_FetchTerminates ==
  /\ \A n \in 1..MaxFetches : Started(n) ~> Finished(n)
  /\ [](\A n \in 1..Len(pipelines) :
          pipelines[n].outcome = "loaded" => BothBodies(pipelines[n]))
  /\ [][ \A n \in 1..Len(pipelines) :
           Settles(n, "failed")
             => message' = [type |-> "error", hidden |-> FALSE] ]_vars

\* C5 witness: a run whose asset-list requests all failed has finished as
\* failed under the error message.
C5_Witness ==
  \E n \in 1..Len(pipelines) :
    /\ pipelines[n].outcome = "failed"
    /\ pipelines[n].coin.result = "error"
    /\ message = [type |-> "error", hidden |-> FALSE]

\* C6: allCoins is the empty list or the asset list of one provider response,
\* in the provider's order.
C6_SnapshotIsOneResponse ==
  \/ allCoins = <<>>
  \/ \E r \in 1..Len(CoinResponses) :
       CoinResponses[r].hasData /\ allCoins = CoinResponses[r].data

\* C6 witness: a second run has replaced the snapshot while an earlier run,
\* already holding another asset list, is still in flight.
C6_Witness ==
  \E p, q \in 1..Len(pipelines) :
    /\ pipelines[p].outcome = "pending"
    /\ pipelines[p].coin.data = 2
    /\ pipelines[q].outcome = "loaded"
    /\ allCoins = CoinResponses[1].data

\* The rows on display, if the list container holds a table or cards.
ShownRows == IF cryptoList.kind \in {"table", "card"} THEN cryptoList.rows ELSE <<>>

\* C7: on the step that completes a run of fetchCoinData, every row painted
\* carries the class of its price against the price the outgoing snapshot
\* held for the same id (0 included): up iff greater, down iff less, none iff
\* equal; a row whose id the outgoing snapshot did not hold carries none.
C7_DeltaFollowsPrices ==
  [][ (\E p \in 1..Len(pipelines) : Settles(p, "loaded"))
        => \A k \in 1..Len(ShownRows') :
             LET row == ShownRows'[k]
                 prior == {m \in 1..Len(allCoins) : allCoins[m].id = row.id}
             IN IF prior = {} THEN row.priceClass = ""
                ELSE \A m \in prior :
                       LET old == ParseFloat(allCoins[m].price_usd)
                           new == ParseFloat(row.price)
                       IN /\ row.priceClass = "animate-price-up" <=> new > old
                          /\ row.priceClass = "animate-price-down" <=> new < old
                          /\ row.priceClass = "" <=> new = old ]_vars

\* updateVisibleCoins has run.
Ran == pagination # [kind |-> "initial"]

\* text contains q as a substring, letter case aside.
ContainsFolded(text, q) ==
  \E off \in 0..(Len(text) - Len(q)) :
    \A j \in 1..Len(q) : LowerChar(text[off + j]) = LowerChar(q[j])

\* The assets of the snapshot whose name or symbol contains q, in snapshot
\* order.
FilteredBy(q) ==
  SelectSeq(allCoins,
            LAMBDA c : ContainsFolded(c.name, q) \/ ContainsFolded(c.symbol, q))

\* The least number of pages of ITEMS_PER_PAGE that hold count assets.
CeilPages(count) ==
  CHOOSE n \in 0..count :
    /\ n * ITEMS_PER_PAGE >= count
    /\ n = 0 \/ (n - 1) * ITEMS_PER_PAGE < count

\* The part of a list that falls on a page.
OnPage(list, page) ==
  [k \in 1..Max(0, Min(ITEMS_PER_PAGE, Len(list) - (page - 1) * ITEMS_PER_PAGE))
     |-> list[(page - 1) * ITEMS_PER_PAGE + k]]

\* C8: after updateVisibleCoins, with q the query it filters by (the search
\* text in lower case, outer whitespace removed), visibleCoins is the part of
\* (allCoins filtered by q) that falls on currentPage: a contiguous run of
\* it, at most ITEMS_PER_PAGE long, every element matching q, in the order
\* of allCoins, no asset twice and none from outside allCoins.
C8_VisibleIsSliceOfFiltered ==
  Ran =>
    LET filtered == FilteredBy(QueryOf(searchInput))
        n == Len(visibleCoins)
    IN /\ n <= ITEMS_PER_PAGE
       /\ visibleCoins = OnPage(filtered, currentPage)
       /\ \E off \in 0..Len(filtered) :
            off + n <= Len(filtered) /\ visibleCoins = SubSeq(filtered, off + 1, off + n)
       /\ \A k \in 1..n :
            \/ ContainsFolded(visibleCoins[k].name, QueryOf(searchInput))
            \/ ContainsFolded(visibleCoins[k].symbol, QueryOf(searchInput))
       /\ \A j, k \in 1..n : j # k => visibleCoins[j].id # visibleCoins[k].id
       /\ \A k \in 1..n : \E a \in 1..Len(allCoins) : allCoins[a] = visibleCoins[k]
       /\ \A j, k \in 1..n :
            j < k => \E a, b \in 1..Len(allCoins) :
                       a < b /\ allCoins[a] = visibleCoins[j] /\ allCoins[b] = visibleCoins[k]

\* C8 witness: the second page of a search that leaves some assets out.
C8_Witness ==
  /\ Ran
  /\ QueryOf(searchInput) # <<>>
  /\ currentPage = 2
  /\ visibleCoins # <<>>
  /\ pagination.totalItems < Len(allCoins)

\* C9 as stated: the count updateVisibleCoins computes is the number of
\* assets whose name or symbol contains the search text as typed, outer
\* whitespace included, letter case aside, and totalPages is its ceiling
\* over ITEMS_PER_PAGE.
C9_CountOfTypedQuery ==
  Ran =>
    /\ pagination.totalItems = Len(FilteredBy(searchInput))
    /\ pagination.totalPages = CeilPages(pagination.totalItems)

\* C9: the count updateVisibleCoins computes is the number of assets whose
\* name or symbol contains, letter case aside, the search text with its
\* leading and trailing whitespace removed (all assets when nothing is left),
\* and totalPages is the ceiling of count / ITEMS_PER_PAGE, 0 for count 0.
C9_CountOfTrimmedQuery ==
  Ran =>
    /\ pagination.totalItems = Len(FilteredBy(Trim(searchInput)))
    /\ Trim(searchInput) = <<>> => pagination.totalItems = Len(allCoins)
    /\ pagination.totalPages = CeilPages(pagination.totalItems)
    /\ pagination.totalItems = 0 => pagination.totalPages = 0

\* C9 witness: a search text with a leading blank that some assets match and
\* others do not, filling more than one page.
C9_Witness ==
  /\ Ran
  /\ searchInput = <<" ", "B">>
  /\ pagination.totalItems > ITEMS_PER_PAGE
  /\ pagination.totalItems < Len(allCoins)
  /\ pagination.totalPages = 2

\* C10: when updateVisibleCoins is entered with currentPage above a positive
\* totalPages it leaves currentPage = totalPages and visibleCoins the last
\* page of the filtered list; entered with currentPage < 1 it leaves
\* currentPage = 1.
C10_PageClamped ==
  Ran =>
    /\ (entryPage > pagination.totalPages /\ pagination.totalPages > 0)
         => /\ currentPage = pagination.totalPages
            /\ visibleCoins =
                 OnPage(FilteredBy(QueryOf(searchInput)), pagination.totalPages)
            /\ visibleCoins # <<>>
    /\ entryPage < 1 => currentPage = 1

\* C10 witness: entered on page 5 of 3, left on page 3 with its one asset.
C10_Witness ==
  /\ Ran
  /\ entryPage = 5
  /\ pagination.totalPages = 3
  /\ currentPage = 3
  /\ Len(visibleCoins) = 1

\* C11: updateVisibleCoins(oldPrices) never modifies allCoins, and a call
\* made after an earlier call, with the same snapshot, search text and
\* oldPrices, leaves visibleCoins, currentPage, totalPages and every row with
\* its price class as the earlier call left them.
C11_ReconcileIdempotent ==
  [][ /\ allCoins' = allCoins
      /\ Ran => /\ visibleCoins' = visibleCoins
                /\ currentPage' = currentPage
                /\ pagination' = pagination
                /\ cryptoList' = cryptoList ]_vars

\* C11 witness: a call entered on the page an earlier call had clamped to,
\* the last of 3, showing a row whose price rose against the index passed.
C11_Witness ==
  /\ Ran
  /\ entryPage = 3
  /\ currentPage = 3
  /\ pagination.totalPages = 3
  /\ oldPricesArg # EmptyPrices
  /\ \E k \in 1..Len(ShownRows) : ShownRows[k].priceClass = "animate-price-up"

\* C12: at most one repeating timer is active; once startAutoRefresh has run
\* it is the one autoRefreshIntervalId names; and a call of startAutoRefresh
\* leaves the timer it found running cancelled.
C12_OneRefreshTimer ==
  /\ [](/\ Cardinality(intervals) <= 1
        /\ intervals \subseteq {autoRefreshIntervalId}
        /\ autoRefreshIntervalId # 0 => intervals = {autoRefreshIntervalId})
  /\ [][ autoRefreshIntervalId' # autoRefreshIntervalId
           => /\ autoRefreshIntervalId \notin intervals'
              /\ intervals' = {autoRefreshIntervalId'} ]_vars

\* C12 witness: startAutoRefresh has run three times and a tick of the third
\* timer has started a refresh.
C12_Witness ==
  /\ autoRefreshIntervalId = 3
  /\ intervals = {3}
  /\ \E p \in 1..Len(pipelines) : pipelines[p].isRefresh

\* The runs of fetchCoinData suspended at the await of Promise.all.
InFlight == {p \in 1..Len(pipelines) : pipelines[p].outcome = "pending"}

\* C13: at most one run of fetchCoinData is in flight, whether started by
\* initializeApp or by a tick of the refresh timer.
C13_NoOverlappingFetches == Cardinality(InFlight) <= 1

\* C14: at most one debounce timer is pending, the one searchTimeout names;
\* an input event cancels the pending timer, schedules a new one and runs no
\* reconciliation; a timer that fires empties the slot and reconciles from
\* page 1 for the text of the last event; and a pending timer fires in the
\* end. So a burst of events none of whose timers has fired is followed by
\* exactly one reconciliation.
C14_SingleSlotDebounce ==
  /\ [](Cardinality(searchTimers) <= 1 /\ searchTimers \subseteq {searchTimeout})
  /\ [][ searchInput' # searchInput
           => /\ searchTimers' = {searchTimeout'}
              /\ searchTimeout \notin searchTimers'
              /\ UNCHANGED <<currentPage, visibleCoins, cryptoList, pagination, entryPage>> ]_vars
  /\ [][ (searchTimers' # searchTimers /\ searchInput' = searchInput)
           => /\ searchTimers' = {}
              /\ entryPage' = 1
              /\ pagination'.totalItems = Len(FilteredBy(Trim(searchInput)))
              /\ visibleCoins' = OnPage(FilteredBy(Trim(searchInput)), 1) ]_vars
  /\ (searchTimers # {}) ~> (searchTimers = {})

\* C14 witness: after three input events the one timer left has fired and
\* the loaded list shows the matches of the last text.
C14_Witness ==
  /\ searchTimeout = 3
  /\ searchTimers = {}
  /\ searchInput = <<" ", "b">>
  /\ allCoins # <<>>
  /\ entryPage = 1
  /\ pagination.totalItems = Len(FilteredBy(<<"b">>))
  /\ pagination.totalItems < Len(allCoins)

\* C15: before initializeApp currentView is the stored viewMode, or table
\* when none is stored; every toggleView(v) leaves v both in currentView and
\* under viewMode; and once initializeApp has run the two are equal.
C15_ViewModePersisted ==
  /\ [](~started => currentView = (IF storedView = "" THEN "table" ELSE storedView))
  /\ [](started => currentView = storedView)
  /\ [][ \A v \in ViewModes :
           ToggleView(v) => storedView' = v /\ currentView' = v ]_vars

\* C15 witness: the card button was pressed over a painted table: card is
\* the view in memory and in the store.
C15_Witness ==
  /\ started
  /\ currentView = "card"
  /\ storedView = "card"
  /\ cryptoList.kind = "table"

\* What renderCoins paints for coins when no price has a prior value.
PaintedUnchanged(coins, view) ==
  IF coins = <<>> THEN [kind |-> "no-results"]
  ELSE [ kind |-> view,
         rows |-> [k \in 1..Len(coins) |->
                     [id |-> coins[k].id, price |-> coins[k].price_usd,
                      priceClass |-> ""]] ]

\* C16: no handler ends in an uncaught error, and every mutation of the view
\* state (a view button, previous page, next page, a search that fires)
\* leaves the list container showing visibleCoins in currentView, each row
\* with no price class.
C16_MutationsRender ==
  /\ [](~uncaught)
  /\ [][ ( \/ \E v \in ViewModes : ToggleView(v)
           \/ GoToPreviousPage
           \/ GoToNextPage
           \/ \E t \in searchTimers : SearchFires(t) )
         => cryptoList' = PaintedUnchanged(visibleCoins', currentView') ]_vars

\* C17: once updateVisibleCoins has run, the previous button is disabled on
\* page 1, the next button is disabled when currentPage >= totalPages, and
\* both are disabled when nothing matches.
C17_ControlsDisabledAtBounds ==
  Ran =>
    /\ currentPage = 1 => pagination.prevDisabled
    /\ currentPage >= pagination.totalPages => pagination.nextDisabled
    /\ pagination.totalItems = 0 => pagination.prevDisabled /\ pagination.nextDisabled

\* C17 witness: a refresh has emptied the snapshot under page 2, and the
\* previous button is left enabled over "No results".
C17_Witness ==
  /\ \E p \in 1..Len(pipelines) : pipelines[p].isRefresh /\ pipelines[p].outcome = "loaded"
  /\ allCoins = <<>>
  /\ currentPage = 2
  /\ pagination.totalItems = 0
  /\ pagination.indicator = <<>>
  /\ ~pagination.prevDisabled

\* C18: the prices captured at a fetch completion are used by the
\* reconciliation of that completion only: a row it paints with a class has
\* a different price under the same id in the outgoing snapshot, and every
\* reconciliation run by the search box or a page button paints every row
\* without a class.
C18_PriorPricesUsedOnce ==
  /\ [][ (\E p \in 1..Len(pipelines) : Settles(p, "loaded"))
           => \A k \in 1..Len(ShownRows') :
                ShownRows'[k].priceClass # ""
                  => \E m \in 1..Len(allCoins) :
                       /\ allCoins[m].id = ShownRows'[k].id
                       /\ allCoins[m].price_usd # ShownRows'[k].price ]_vars
  /\ [][ ( \/ GoToPreviousPage
           \/ GoToNextPage
           \/ \E t \in searchTimers : SearchFires(t) )
           => \A k \in 1..Len(ShownRows') : ShownRows'[k].priceClass = "" ]_vars

\* C18 witness: the last fetch completion painted a price change, and the
\* full first page on display carries no class any more.
C18_Witness ==
  /\ lastCompletion.deltas
  /\ currentPage = 1
  /\ Len(ShownRows) = ITEMS_PER_PAGE
  /\ \A k \in 1..Len(ShownRows) : ShownRows[k].priceClass = ""

\* C19: the step in which a run of fetchCoinData completes, loaded or failed,
\* leaves the search text, the view mode and the modal as they were, and
\* leaves currentPage as it was, except that a loaded run which finds
\* currentPage above the new totalPages > 0 leaves it at totalPages.
C19_CompletionKeepsContext ==
  [][ \A p \in 1..Len(pipelines) :
        (Settles(p, "loaded") \/ Settles(p, "failed"))
          => /\ searchInput' = searchInput
             /\ currentView' = currentView
             /\ storedView' = storedView
             /\ modalHidden' = modalHidden
             /\ IF /\ Settles(p, "loaded")
                   /\ pagination'.totalPages > 0
                   /\ currentPage > pagination'.totalPages
                  THEN currentPage' = pagination'.totalPages
                  ELSE currentPage' = currentPage ]_vars

\* C19 witness: a refresh has completed with a one-page answer for a user on
\* page 2 of a search, the modal open: the page is 1, the rest is in place.
C19_Witness ==
  /\ lastCompletion.run = 2
  /\ allCoins = CoinResponses[2].data
  /\ searchInput = <<" ", "b">>
  /\ ~modalHidden
  /\ entryPage = 2
  /\ currentPage = 1

\* C20: the step in which a run of fetchCoinData completes as loaded does
\* all of it at once: the rows it paints show the prices of the snapshot it
\* installs, and the class of each row compares that price with the price
\* the same id had in the snapshot the step found in the store (above: up,
\* below: down, equal or not held: none; a price of 0 found there gives
\* none, as getPriceChangeClass has it), whichever runs were in flight.
C20_DeltasAgainstOutgoingSnapshot ==
  [][ (\E p \in 1..Len(pipelines) : Settles(p, "loaded"))
        => \A k \in 1..Len(ShownRows') :
             LET row == ShownRows'[k]
                 prior == {m \in 1..Len(allCoins) : allCoins[m].id = row.id}
             IN /\ \E m \in 1..Len(allCoins') :
                     allCoins'[m].id = row.id /\ allCoins'[m].price_usd = row.price
                /\ prior = {} => row.priceClass = ""
                /\ \A m \in prior :
                     LET old == ParseFloat(allCoins[m].price_usd)
                         new == ParseFloat(row.price)
                     IN row.priceClass =
                          IF old = 0 THEN ""
                          ELSE IF new > old THEN "animate-price-up"
                          ELSE IF new < old THEN "animate-price-down"
                          ELSE "" ]_vars

\* C20 witness: the initial load, started over the empty store, has
\* completed after a refresh that was started later, and has painted a price
\* change against the snapshot of that refresh.
C20_Witness ==
  /\ lastCompletion.run = 1
  /\ lastCompletion.deltas
  /\ Len(pipelines) = 2
  /\ pipelines[2].outcome = "loaded"
  /\ \E k \in 1..Len(ShownRows) : ShownRows[k].priceClass = "animate-price-down"

\* The page is within the bounds the last call of updateVisibleCoins
\* computed, and no empty page is shown while assets match.
PageWithinBounds ==
  /\ currentPage >= 1
  /\ pagination.totalPages > 0 => currentPage <= pagination.totalPages
  /\ visibleCoins = <<>> => pagination.totalItems = 0

\* C21: fetch completions, debounced searches, previous-page and next-page
\* actions (next-page on any page, the last one and "No results" included)
\* keep currentPage >= 1, currentPage <= totalPages when totalPages > 0, and
\* visibleCoins empty only when nothing matched; and when no debounce is
\* pending, so that the search text is the one last filtered by, the page is
\* within the pages of the assets matching it, and visibleCoins is empty
\* only if none of them matches.
C21_NeverOnEmptyPage ==
  Ran =>
    /\ PageWithinBounds
    /\ searchTimers = {} =>
         With(Len(FilteredBy(QueryOf(searchInput))), LAMBDA count :
           /\ count > 0 => currentPage <= CeilPages(count)
           /\ visibleCoins = <<>> => count = 0)

\* C21 witness: a refresh has left one page of assets, painted with price
\* changes; the next-page action was then invoked on that page (no search
\* was ever made), and the page is still page 1 with its assets shown.
C21_Witness ==
  /\ lastCompletion.run = 2
  /\ lastCompletion.deltas
  /\ \A p \in 1..Len(pipelines) : pipelines[p].outcome # "pending"
  /\ searchTimeout = 0
  /\ entryPage = 2
  /\ currentPage = 1
  /\ pagination.totalPages = 1
  /\ visibleCoins # <<>>
  /\ \A k \in 1..Len(ShownRows) : ShownRows[k].priceClass = ""

\* C22: only a success message starts a hide timer, and an error or loading
\* message that is visible stays visible in every step: a timer left
\* pending by an earlier success message never hides it.
C22_OnlySuccessDismissed ==
  [][ /\ hideTimers' > hideTimers => message'.type = "success"
      /\ (message.type \in {"error", "loading"} /\ ~message.hidden)
           => ~message'.hidden ]_vars

\* C22 witness: the initial load has succeeded, a refresh started while it
\* was in flight has failed after it, and the error message is hidden.
C22_Witness ==
  /\ Len(pipelines) = 2
  /\ pipelines[1].outcome = "loaded"
  /\ pipelines[2].outcome = "failed"
  /\ message = [type |-> "error", hidden |-> TRUE]
  /\ hideTimers = 0

====
